---- MODULE Spec2Model ----
(***************************************************************************)
(* Model of the NBA statistics pipeline: the season-coverage analyzer      *)
(* (detect_anomalies in main.py / test.py), the metrics engine             *)
(* (safe_float, compute_metrics in build_db.py / build2_db.py) and the     *)
(* stats loader (main in build_db.py, load_player_season_stats in          *)
(* build2_db.py).                                                          *)
(*                                                                         *)
(* Strings are sequences of one-character strings, so that formatting,     *)
(* splitting, integer parsing and lexicographic comparison are computed    *)
(* the way the Python code computes them.                                  *)
(***************************************************************************)
EXTENDS Integers, Sequences, FiniteSets, TLC

VARIABLES
    \* ---- season-coverage analyzer ----
    df,                 \* the input frame, grouped: player name -> set of SEASON labels
    df_has_columns,     \* whether the frame has the PLAYER_NAME / SEASON columns
    cov_pc,             \* "call" before detect_anomalies, "done" after it
    cov_outcome,        \* "pending", "written", "ValueError" or "KeyError"
    missing_csv,        \* nba_player_missing_seasons.csv: "none" or player -> entry
    \* ---- metrics engine ----
    r,                  \* the input record: stat name -> raw JSON value
    met_pc,             \* "call" before compute_metrics, "done" after it
    met_outcome,        \* "pending", "returned" or "OverflowError"
    metrics,            \* the returned 5-tuple as a record, or "none"
    \* ---- database build ----
    script,             \* "build_db" or "build2_db"
    json_exists,        \* whether the stats JSON file exists
    rows,               \* the records of the stats JSON file
    csv_state,          \* missing-seasons CSV: "absent", "ok" or "bad_header"
    draft_state,        \* draft JSON: "absent", "empty" or "ok"
    ld_pc,              \* the statement the build is at
    ld_error,           \* the exception that ended the build, or "none"
    db_file,            \* the database file: "absent", "old" or "new"
    db_tables,          \* tables committed to the new database
    db_rows,            \* player_season_stats rows committed to the new database
    tx_open,            \* whether the connection holds an open transaction
    tx_tables,          \* tables created inside the open transaction
    tx_rows,            \* rows inserted inside the open transaction
    next_row,           \* index of the next record the insert loop takes
    \* ---- stats fetch ----
    season_idx,         \* position in `seasons` of the next loop iteration
    requests,           \* season labels of the requests issued, in order
    responses,          \* how each request ended: "ok", "TimeoutError", "error"
    all_rows,           \* the records collected so far
    fetch_pc,           \* "loop", "write", "done" or "halted"
    stats_out           \* nba_player_stats_2000_2025.csv / .json, or "none"

covVars == <<df, df_has_columns, cov_pc, cov_outcome, missing_csv>>
metVars == <<r, met_pc, met_outcome, metrics>>
ldVars == <<script, json_exists, rows, csv_state, draft_state, ld_pc, ld_error,
            db_file, db_tables, db_rows, tx_open, tx_tables, tx_rows, next_row>>
fetchVars == <<season_idx, requests, responses, all_rows, fetch_pc, stats_out>>
vars == <<covVars, metVars, ldVars, fetchVars>>

\* the parts of the pipeline a specification leaves out stay as they are here
CovIdle ==
    /\ df = <<>>
    /\ df_has_columns = FALSE
    /\ cov_pc = "idle"
    /\ cov_outcome = "pending"
    /\ missing_csv = "none"

MetIdle ==
    /\ r = <<>>
    /\ met_pc = "idle"
    /\ met_outcome = "pending"
    /\ metrics = "none"

LdIdle ==
    /\ script = "none"
    /\ json_exists = FALSE
    /\ rows = <<>>
    /\ csv_state = "absent"
    /\ draft_state = "absent"
    /\ ld_pc = "idle"
    /\ ld_error = "none"
    /\ db_file = "absent"
    /\ db_tables = {}
    /\ db_rows = <<>>
    /\ tx_open = FALSE
    /\ tx_tables = {}
    /\ tx_rows = <<>>
    /\ next_row = 1

FetchIdle ==
    /\ season_idx = 1
    /\ requests = <<>>
    /\ responses = <<>>
    /\ all_rows = <<>>
    /\ fetch_pc = "idle"
    /\ stats_out = "none"

(***************************************************************************)
(* Bounds                                                                  *)
(***************************************************************************)
MinYear == 1998         \* first start year of the well-formed labels drawn
MaxYear == 2003         \* last start year of the well-formed labels drawn
MaxSeasons == 3         \* most labels observed for one player
MaxStat == 2            \* the positive value a stat field is drawn with
MaxRows == 2            \* most records in the stats JSON file
MaxPlayerId == 2        \* player ids are drawn from 1..MaxPlayerId
MaxFaults == 2          \* most requests of one fetch that do not succeed

(***************************************************************************)
(* Python strings                                                          *)
(***************************************************************************)
Digits == <<"0", "1", "2", "3", "4", "5", "6", "7", "8", "9">>

DigitSet == {Digits[i] : i \in 1..10}

\* ord(c) for the characters the labels are drawn from
CharCode(c) ==
    CASE c = "-" -> 45
      [] c \in DigitSet -> 47 + (CHOOSE i \in 1..10 : Digits[i] = c)
      [] c = "a" -> 97
      [] c = "b" -> 98
      [] c = "c" -> 99
      [] c = "d" -> 100
      [] OTHER -> 127

\* str(n) for n >= 0
RECURSIVE Str(_)
Str(n) ==
    IF n < 10 THEN <<Digits[n + 1]>>
    ELSE Str(n \div 10) \o <<Digits[(n % 10) + 1]>>

\* s[-2:]
LastTwo(s) == IF Len(s) <= 2 THEN s ELSE SubSeq(s, Len(s) - 1, Len(s))

\* s.split("-")[0]: the text before the first "-", the whole text without one
RECURSIVE SplitFirst(_)
SplitFirst(s) ==
    IF s = <<>> \/ Head(s) = "-" THEN <<>>
    ELSE <<Head(s)>> \o SplitFirst(Tail(s))

\* int(s): ValueError (ok = FALSE) on an empty text or a non-digit character
RECURSIVE DigitsValue(_)
DigitsValue(s) ==
    IF s = <<>> THEN 0
    ELSE 10 * DigitsValue(SubSeq(s, 1, Len(s) - 1))
         + (CharCode(s[Len(s)]) - 48)

ParseInt(s) ==
    IF s = <<>> \/ \E i \in 1..Len(s) : s[i] \notin DigitSet
    THEN [ok |-> FALSE, v |-> 0]
    ELSE [ok |-> TRUE, v |-> DigitsValue(s)]

\* a < b on Python strings (code-point lexicographic order)
RECURSIVE StrLess(_, _)
StrLess(a, b) ==
    IF b = <<>> THEN FALSE
    ELSE IF a = <<>> THEN TRUE
    ELSE IF Head(a) # Head(b) THEN CharCode(Head(a)) < CharCode(Head(b))
    ELSE StrLess(Tail(a), Tail(b))

\* min(S), max(S) of a non-empty set of strings
MinStr(S) == CHOOSE x \in S : \A y \in S : x = y \/ StrLess(x, y)
MaxStr(S) == CHOOSE x \in S : \A y \in S : x = y \/ StrLess(y, x)

\* sorted(S)
RECURSIVE Sorted(_)
Sorted(S) ==
    IF S = {} THEN <<>>
    ELSE <<MinStr(S)>> \o Sorted(S \ {MinStr(S)})

(***************************************************************************)
(* Season labels                                                           *)
(***************************************************************************)
\* f"{year}-{str(year+1)[-2:]}"
SeasonLabel(year) == Str(year) \o <<"-">> \o LastTwo(Str(year + 1))

\* f"{year-1}-{str(year)[-2:]}" forgetting to undo the shift
RenderMissingNoUnshift(year) == Str(year) \o <<"-">> \o LastTwo(Str(year + 1))

\* f"{year-1}-{str(year)[-2:]}"
RenderMissing(year) == Str(year - 1) \o <<"-">> \o LastTwo(Str(year))

\* int(s.split("-")[0]) + 1
ShiftedYear(s) ==
    LET p == ParseInt(SplitFirst(s))
    IN  [ok |-> p.ok, v |-> p.v + 1]

(***************************************************************************)
(* Python floats: None, a finite value n/d (d > 0, in lowest terms), nan,   *)
(* inf and -inf.  "overflow" marks float(x) raising OverflowError and      *)
(* "zerodiv" a division raising ZeroDivisionError.                         *)
(***************************************************************************)
RECURSIVE Gcd(_, _)
Gcd(a, b) == IF b = 0 THEN a ELSE Gcd(b, a % b)

Abs(x) == IF x < 0 THEN -x ELSE x

None == [k |-> "none", n |-> 0, d |-> 1]
NaN == [k |-> "nan", n |-> 0, d |-> 1]
Inf == [k |-> "inf", n |-> 0, d |-> 1]
NegInf == [k |-> "ninf", n |-> 0, d |-> 1]
Overflow == [k |-> "overflow", n |-> 0, d |-> 1]
ZeroDiv == [k |-> "zerodiv", n |-> 0, d |-> 1]

\* the float n/d, d > 0
Fin(n, d) ==
    LET g == Gcd(Abs(n), d)
    IN  [k |-> "fin", n |-> n \div g, d |-> d \div g]

\* -1, 0 or 1 for a finite or infinite float
Sign(a) ==
    CASE a.k = "inf" -> 1
      [] a.k = "ninf" -> -1
      [] OTHER -> IF a.n > 0 THEN 1 ELSE IF a.n < 0 THEN -1 ELSE 0

Signed(sgn) == IF sgn > 0 THEN Inf ELSE NegInf

\* a + b
FAdd(a, b) ==
    CASE a.k = "nan" \/ b.k = "nan" -> NaN
      [] a.k = "fin" /\ b.k = "fin" -> Fin(a.n * b.d + b.n * a.d, a.d * b.d)
      [] a.k = "fin" -> b
      [] b.k = "fin" -> a
      [] OTHER -> IF a.k = b.k THEN a ELSE NaN

\* a * b
FMul(a, b) ==
    CASE a.k = "nan" \/ b.k = "nan" -> NaN
      [] a.k = "fin" /\ b.k = "fin" -> Fin(a.n * b.n, a.d * b.d)
      [] OTHER -> IF Sign(a) * Sign(b) = 0 THEN NaN ELSE Signed(Sign(a) * Sign(b))

\* a / b: ZeroDivisionError on a zero divisor
FDiv(a, b) ==
    CASE b.k = "fin" /\ b.n = 0 -> ZeroDiv
      [] a.k = "nan" \/ b.k = "nan" -> NaN
      [] a.k = "fin" /\ b.k = "fin" ->
            IF b.n > 0 THEN Fin(a.n * b.d, a.d * b.n)
            ELSE Fin(-(a.n * b.d), a.d * (-b.n))
      [] a.k = "fin" -> Fin(0, 1)
      [] b.k = "fin" -> Signed(Sign(a) * Sign(b))
      [] OTHER -> NaN

\* a > 0
FGt0(a) == a.k = "inf" \/ (a.k = "fin" /\ a.n > 0)

(***************************************************************************)
(* Metrics engine: safe_float and compute_metrics                          *)
(***************************************************************************)
Fields == {"MIN", "PTS", "REB", "AST", "FGM", "FGA", "FG3M", "FTA"}

\* raw JSON values of a field: t is the kind, v the number of an int or of a
\* numeric string
Raw(t, v) == [t |-> t, v |-> v]

\* safe_float(r.get(key)): a missing key or null is float(None), a TypeError;
\* a non-numeric string a ValueError; an int beyond the float range raises
\* OverflowError, which the except clause does not name
safe_float(x) ==
    CASE x.t \in {"missing", "null", "str"} -> None
      [] x.t \in {"int", "numstr"} -> Fin(x.v, 1)
      [] x.t = "bigint" -> Overflow
      [] x.t = "nan" -> NaN
      [] x.t = "inf" -> Inf
      [] OTHER -> NegInf

\* the eFG% block with fga >= 0 as its guard
EfgZeroAttempts(fgm, fga, fg3m) ==
    IF fga # None /\ (FGt0(fga) \/ fga = Fin(0, 1)) /\ fgm # None /\ fg3m # None
    THEN IF fga = Fin(0, 1) THEN Fin(0, 1)
         ELSE FDiv(FAdd(fgm, FMul(Fin(1, 2), fg3m)), fga)
    ELSE None

\* the eFG% block
Efg(fgm, fga, fg3m) ==
    IF fga # None /\ FGt0(fga) /\ fgm # None /\ fg3m # None
    THEN FDiv(FAdd(fgm, FMul(Fin(1, 2), fg3m)), fga)
    ELSE None

\* the TS% block guarded by fga > 0, as the eFG% block is
TsGuardOnFga(pts, fga, fta) ==
    IF pts # None /\ fga # None /\ fta # None
    THEN LET denom == FMul(Fin(2, 1), FAdd(fga, FMul(Fin(11, 25), fta)))
         IN  IF FGt0(fga) THEN FDiv(pts, denom) ELSE None
    ELSE None

\* the TS% block
Ts(pts, fga, fta) ==
    IF pts # None /\ fga # None /\ fta # None
    THEN LET denom == FMul(Fin(2, 1), FAdd(fga, FMul(Fin(11, 25), fta)))
         IN  IF FGt0(denom) THEN FDiv(pts, denom) ELSE None
    ELSE None

\* one per-36 value with a missing stat counted as zero
Per36MissingAsZero(stat, min_) ==
    IF min_ # None /\ FGt0(min_)
    THEN LET factor == FDiv(Fin(36, 1), min_)
         IN  IF stat # None THEN FMul(stat, factor) ELSE Fin(0, 1)
    ELSE None

\* one per-36 value
Per36(stat, min_) ==
    IF min_ # None /\ FGt0(min_)
    THEN LET factor == FDiv(Fin(36, 1), min_)
         IN  IF stat # None THEN FMul(stat, factor) ELSE None
    ELSE None

\* compute_metrics(rec): raised is TRUE when a safe_float call raises
ComputeMetrics(rec) ==
    LET min_ == safe_float(rec["MIN"])
        pts == safe_float(rec["PTS"])
        reb == safe_float(rec["REB"])
        ast == safe_float(rec["AST"])
        fgm == safe_float(rec["FGM"])
        fga == safe_float(rec["FGA"])
        fg3m == safe_float(rec["FG3M"])
        fta == safe_float(rec["FTA"])
    IN  IF Overflow \in {min_, pts, reb, ast, fgm, fga, fg3m, fta}
        THEN [raised |-> TRUE, ts |-> None, efg |-> None,
              pts_36 |-> None, reb_36 |-> None, ast_36 |-> None]
        ELSE [raised |-> FALSE,
              ts |-> Ts(pts, fga, fta),
              efg |-> Efg(fgm, fga, fg3m),
              pts_36 |-> Per36(pts, min_),
              reb_36 |-> Per36(reb, min_),
              ast_36 |-> Per36(ast, min_)]

compute_metrics ==
    /\ met_pc = "call"
    /\ met_pc' = "done"
    /\ LET res == ComputeMetrics(r)
       IN  IF res.raised
           THEN /\ met_outcome' = "OverflowError"
                /\ metrics' = metrics
           ELSE /\ met_outcome' = "returned"
                /\ metrics' = [ts |-> res.ts, efg |-> res.efg,
                               pts_per36 |-> res.pts_36,
                               reb_per36 |-> res.reb_36,
                               ast_per36 |-> res.ast_36]
    /\ UNCHANGED <<r, covVars, ldVars, fetchVars>>

\* the values most fields of a drawn record take
BaseValues == {Raw("null", 0), Raw("int", 0), Raw("int", MaxStat)}

\* the values one field of a drawn record may take instead
OtherValues ==
    {Raw("missing", 0), Raw("str", 0), Raw("numstr", MaxStat), Raw("int", -1),
     Raw("nan", 0), Raw("inf", 0), Raw("ninf", 0), Raw("bigint", 0)}

\* {MIN: 30, PTS: 20, REB: 5, FGA: 15, FGM: 8, FG3M: 2, FTA: 4}
ExampleRecord ==
    [f \in Fields |->
        CASE f = "MIN" -> Raw("int", 30)
          [] f = "PTS" -> Raw("int", 20)
          [] f = "REB" -> Raw("int", 5)
          [] f = "FGA" -> Raw("int", 15)
          [] f = "FGM" -> Raw("int", 8)
          [] f = "FG3M" -> Raw("int", 2)
          [] f = "FTA" -> Raw("int", 4)
          [] OTHER -> Raw("missing", 0)]

DrawnRecords ==
    {ExampleRecord}
    \cup [Fields -> BaseValues]
    \cup {[b EXCEPT ![f] = x] : b \in [Fields -> BaseValues], f \in Fields,
                                x \in OtherValues}

MetInit ==
    /\ r \in DrawnRecords
    /\ met_pc = "call"
    /\ met_outcome = "pending"
    /\ metrics = "none"
    /\ CovIdle
    /\ LdIdle
    /\ FetchIdle

MetNext == compute_metrics

SpecMetrics == MetInit /\ [][MetNext]_vars

(***************************************************************************)
(* Season-coverage analyzer: detect_anomalies                              *)
(***************************************************************************)
Players == {"Ann", "Bob"}

Years == MinYear..MaxYear

\* the labels fetch_nba_player_stats tags records with
WellFormedLabels == {SeasonLabel(y) : y \in Years}

\* labels that do not start with a 4-digit year: "996-97", "999-00" and
\* "abcd-01"
MalformedLabels ==
    { <<"9", "9", "6", "-", "9", "7">>,
      <<"9", "9", "9", "-", "0", "0">>,
      <<"a", "b", "c", "d", "-", "0", "1">> }

LabelUniverse == WellFormedLabels \cup MalformedLabels

\* df.groupby("PLAYER_NAME")["SEASON"].apply(set): one group per player with rows
Grouped(frame) == {p \in DOMAIN frame : frame[p] # {}}

\* set(range(start, end + 1))
EligibleRange(start, end) == start..end

\* every int(s.split("-")[0]) of the loop body succeeds
SeasonsParse(seasons) == \A s \in seasons : ShiftedYear(s).ok

\* {int(s.split("-")[0]) for s in seasons}: the observed years left unshifted
ObservedUnshifted(seasons) == {ShiftedYear(s).v - 1 : s \in seasons}

\* {int(s.split("-")[0]) + 1 for s in seasons}
ObservedShifted(seasons) == {ShiftedYear(s).v : s \in seasons}

\* the loop body for one player: ok = FALSE when int() raises ValueError
MissingSeasons(seasons) ==
    IF ~SeasonsParse(seasons) THEN [ok |-> FALSE, missing |-> <<>>]
    ELSE LET start == ShiftedYear(MinStr(seasons)).v
             end == ShiftedYear(MaxStr(seasons)).v
             missing_seasons ==
                 EligibleRange(start, end) \ ObservedShifted(seasons)
         IN  [ok |-> TRUE,
              missing |-> Sorted({RenderMissing(year) : year \in missing_seasons})]

\* grouped_df as written by to_csv
CoverageReport(frame) ==
    [p \in Grouped(frame) |->
        [SEASONS |-> Sorted(frame[p]),
         MISSING_SEASONS |-> MissingSeasons(frame[p]).missing]]

detect_anomalies ==
    /\ cov_pc = "call"
    /\ cov_pc' = "done"
    /\ IF ~df_has_columns
       THEN \* df.groupby("PLAYER_NAME") on a frame without that column
            /\ cov_outcome' = "KeyError"
            /\ missing_csv' = missing_csv
       ELSE IF \E p \in Grouped(df) : ~MissingSeasons(df[p]).ok
       THEN /\ cov_outcome' = "ValueError"
            /\ missing_csv' = missing_csv
       ELSE /\ cov_outcome' = "written"
            /\ missing_csv' = CoverageReport(df)
    /\ UNCHANGED <<df, df_has_columns, metVars, ldVars, fetchVars>>

CovInit ==
    /\ df \in [Players -> {S \in SUBSET LabelUniverse : Cardinality(S) <= MaxSeasons}]
    /\ df_has_columns \in BOOLEAN
    /\ (Grouped(df) # {} => df_has_columns)
    /\ cov_pc = "call"
    /\ cov_outcome = "pending"
    /\ missing_csv = "none"
    /\ MetIdle
    /\ LdIdle
    /\ FetchIdle

CovNext == detect_anomalies

SpecCov == CovInit /\ [][CovNext]_vars

(***************************************************************************)
(* Database build: main of build_db.py, and main with                      *)
(* load_player_season_stats and the later loaders of build2_db.py          *)
(***************************************************************************)
required_keys ==
    {"PLAYER_ID", "PLAYER_NAME", "TEAM_ID", "TEAM_ABBREVIATION", "SEASON",
     "AGE", "GP", "MIN", "W", "L", "W_PCT",
     "FGM", "FGA", "FG3M", "FG3A", "FTM", "FTA",
     "OREB", "DREB", "REB", "AST", "TOV", "STL", "BLK", "PF", "PTS",
     "PLUS_MINUS"}

\* the keys the insert loop reads as r[key]; the others are read as r.get(key)
IndexedKeys == {"PLAYER_ID", "PLAYER_NAME", "TEAM_ID", "TEAM_ABBREVIATION", "SEASON"}

\* a record of the stats JSON: the keys it has, its player id, its season and
\* its MIN value
Row(lacks, pid, min) ==
    [keys |-> required_keys \ lacks,
     PLAYER_ID |-> IF "PLAYER_ID" \in lacks THEN 0 ELSE pid,
     SEASON |-> SeasonLabel(MinYear),
     MIN |-> IF "MIN" \in lacks THEN Raw("missing", 0) ELSE min]

DrawnRows ==
    {Row(lacks, pid, min) :
        lacks \in {{}, {"MIN"}, {"PLAYER_ID"}},
        pid \in 1..MaxPlayerId,
        min \in {Raw("int", MaxStat), Raw("null", 0), Raw("bigint", 0)}}

RECURSIVE SeqsUpTo(_, _)
SeqsUpTo(S, n) ==
    IF n = 0 THEN {<<>>}
    ELSE SeqsUpTo(S, n - 1)
         \cup {Append(q, x) : q \in {t \in SeqsUpTo(S, n - 1) : Len(t) = n - 1},
                              x \in S}

\* the mapping compute_metrics reads from a record
StatsOf(row) ==
    [f \in Fields |->
        IF f \notin row.keys THEN Raw("missing", 0)
        ELSE IF f = "MIN" THEN row.MIN
        ELSE Raw("int", MaxStat)]

\* the order of build2_db.py with con.commit() moved up to follow the stats
\* load, ahead of the later loaders
NextPcCommitEarly(at) ==
    IF script = "build_db"
    THEN CASE at = "check_json" -> "read_rows"
           [] at = "read_rows" -> "validate"
           [] at = "validate" -> "recreate_db"
           [] at = "recreate_db" -> "create_table"
           [] at = "create_table" -> "insert"
           [] at = "insert" -> "commit"
           [] at = "commit" -> "finish"
           [] OTHER -> "done"
    ELSE CASE at = "recreate_db" -> "check_json"
           [] at = "check_json" -> "read_rows"
           [] at = "read_rows" -> "validate"
           [] at = "validate" -> "create_table"
           [] at = "create_table" -> "insert"
           [] at = "insert" -> "commit"
           [] at = "commit" -> "rebuild_players"
           [] at = "rebuild_players" -> "load_missing"
           [] at = "load_missing" -> "load_draft"
           [] at = "load_draft" -> "finish"
           [] OTHER -> "done"

\* the statement after `at` in the order the script runs them
NextPc(at) ==
    IF script = "build_db"
    THEN CASE at = "check_json" -> "read_rows"
           [] at = "read_rows" -> "validate"
           [] at = "validate" -> "recreate_db"
           [] at = "recreate_db" -> "create_table"
           [] at = "create_table" -> "insert"
           [] at = "insert" -> "commit"
           [] at = "commit" -> "finish"
           [] OTHER -> "done"
    ELSE CASE at = "recreate_db" -> "check_json"
           [] at = "check_json" -> "read_rows"
           [] at = "read_rows" -> "validate"
           [] at = "validate" -> "create_table"
           [] at = "create_table" -> "insert"
           [] at = "insert" -> "rebuild_players"
           [] at = "rebuild_players" -> "load_missing"
           [] at = "load_missing" -> "load_draft"
           [] at = "load_draft" -> "commit"
           [] at = "commit" -> "finish"
           [] OTHER -> "done"

ldData == <<script, json_exists, rows, csv_state, draft_state>>
ldDb == <<db_file, db_tables, db_rows, tx_open, tx_tables, tx_rows, next_row>>

\* an exception leaves the script: nothing after it runs, and the open
\* transaction is never committed
Raise(exc) ==
    /\ ld_pc' = "halted"
    /\ ld_error' = exc

Step(at) ==
    /\ ld_pc' = NextPc(at)
    /\ ld_error' = ld_error

\* if not JSON_PATH.exists(): raise FileNotFoundError
CheckJson ==
    /\ ld_pc = "check_json"
    /\ IF ~json_exists THEN Raise("FileNotFoundError") ELSE Step("check_json")
    /\ UNCHANGED <<ldData, ldDb, covVars, metVars, fetchVars>>

\* rows = json.loads(...); if not rows: raise ValueError
ReadRows ==
    /\ ld_pc = "read_rows"
    /\ IF rows = <<>> THEN Raise("ValueError") ELSE Step("read_rows")
    /\ UNCHANGED <<ldData, ldDb, covVars, metVars, fetchVars>>

\* the schema check with no key ever reported missing
MissingKeysNone(first) == {}

\* missing = required_keys - set(rows[0].keys())
MissingKeys(first) == required_keys \ first.keys

\* if missing: raise KeyError
Validate ==
    /\ ld_pc = "validate"
    /\ IF MissingKeys(rows[1]) # {} THEN Raise("KeyError") ELSE Step("validate")
    /\ UNCHANGED <<ldData, ldDb, covVars, metVars, fetchVars>>

\* if DB_PATH.exists(): DB_PATH.unlink(); sqlite3.connect(DB_PATH); PRAGMAs
RecreateDb ==
    /\ ld_pc = "recreate_db"
    /\ db_file' = "new"
    /\ Step("recreate_db")
    /\ UNCHANGED <<ldData, db_tables, db_rows, tx_open, tx_tables, tx_rows, next_row,
                   covVars, metVars, fetchVars>>

\* CREATE TABLE player_season_stats: no transaction is open, so it is
\* committed at once
CreateTable ==
    /\ ld_pc = "create_table"
    /\ db_tables' = db_tables \cup {"player_season_stats"}
    /\ Step("create_table")
    /\ UNCHANGED <<ldData, db_file, db_rows, tx_open, tx_tables, tx_rows, next_row,
                   covVars, metVars, fetchVars>>

\* one pass of `for r in rows`: compute_metrics(r), the values list, and
\* cur.execute(insert_sql, values)
InsertRow ==
    /\ ld_pc = "insert"
    /\ next_row <= Len(rows)
    /\ LET row == rows[next_row]
           res == ComputeMetrics(StatsOf(row))
       IN  IF res.raised
           THEN Raise("OverflowError") /\ UNCHANGED <<tx_open, tx_rows, next_row>>
           ELSE IF IndexedKeys \ row.keys # {}
           THEN Raise("KeyError") /\ UNCHANGED <<tx_open, tx_rows, next_row>>
           ELSE IF \E j \in 1..Len(tx_rows) :
                      /\ tx_rows[j].player_id = row.PLAYER_ID
                      /\ tx_rows[j].season = row.SEASON
           THEN \* PRIMARY KEY (player_id, season)
                Raise("IntegrityError") /\ UNCHANGED <<tx_open, tx_rows, next_row>>
           ELSE /\ tx_open' = TRUE
                /\ tx_rows' = Append(tx_rows,
                                [player_id |-> row.PLAYER_ID,
                                 season |-> row.SEASON,
                                 min |-> safe_float(row.MIN),
                                 ts_pct |-> res.ts,
                                 efg_pct |-> res.efg,
                                 pts_per36 |-> res.pts_36,
                                 reb_per36 |-> res.reb_36,
                                 ast_per36 |-> res.ast_36])
                /\ next_row' = next_row + 1
                /\ ld_pc' = IF next_row = Len(rows) THEN NextPc("insert") ELSE "insert"
                /\ ld_error' = ld_error
    /\ UNCHANGED <<ldData, db_file, db_tables, db_rows, tx_tables, covVars, metVars, fetchVars>>

\* rebuild_players_from_stats: DROP TABLE IF EXISTS players; CREATE TABLE
\* players AS SELECT ..., inside the transaction the inserts opened
RebuildPlayers ==
    /\ ld_pc = "rebuild_players"
    /\ tx_tables' = tx_tables \cup {"players"}
    /\ Step("rebuild_players")
    /\ UNCHANGED <<ldData, db_file, db_tables, db_rows, tx_open, tx_rows, next_row,
                   covVars, metVars, fetchVars>>

\* load_player_missing_seasons: skipped without the CSV; KeyError on a header
\* without the three columns, after the table is created
LoadMissingSeasons ==
    /\ ld_pc = "load_missing"
    /\ IF csv_state = "absent"
       THEN Step("load_missing") /\ UNCHANGED tx_tables
       ELSE /\ tx_tables' = tx_tables \cup {"player_missing_seasons"}
            /\ IF csv_state = "bad_header"
               THEN Raise("KeyError")
               ELSE Step("load_missing")
    /\ UNCHANGED <<ldData, db_file, db_tables, db_rows, tx_open, tx_rows, next_row,
                   covVars, metVars, fetchVars>>

\* load_draft_history: skipped without the JSON or with an empty one
LoadDraftHistory ==
    /\ ld_pc = "load_draft"
    /\ tx_tables' = IF draft_state = "ok"
                    THEN tx_tables \cup {"draft_history"}
                    ELSE tx_tables
    /\ Step("load_draft")
    /\ UNCHANGED <<ldData, db_file, db_tables, db_rows, tx_open, tx_rows, next_row,
                   covVars, metVars, fetchVars>>

\* con.commit()
Commit ==
    /\ ld_pc = "commit"
    /\ db_tables' = db_tables \cup tx_tables
    /\ db_rows' = db_rows \o tx_rows
    /\ tx_open' = FALSE
    /\ tx_tables' = {}
    /\ tx_rows' = <<>>
    /\ Step("commit")
    /\ UNCHANGED <<ldData, db_file, next_row, covVars, metVars, fetchVars>>

\* the indexes and sample queries after the commit, and con.close(); the
\* sample queries of build2_db.py read player_missing_seasons and
\* draft_history, which the skipped loaders never created
Finish ==
    /\ ld_pc = "finish"
    /\ IF script = "build2_db"
          /\ {"player_missing_seasons", "draft_history"} \ db_tables # {}
       THEN Raise("OperationalError")
       ELSE Step("finish")
    /\ UNCHANGED <<ldData, ldDb, covVars, metVars, fetchVars>>

LdInit ==
    /\ script \in {"build_db", "build2_db"}
    /\ json_exists \in BOOLEAN
    /\ rows \in SeqsUpTo(DrawnRows, MaxRows)
    /\ (~json_exists => rows = <<>>)
    /\ csv_state \in {"absent", "ok", "bad_header"}
    /\ draft_state \in {"absent", "empty", "ok"}
    /\ (script = "build_db" => csv_state = "absent" /\ draft_state = "absent")
    /\ ld_pc = IF script = "build_db" THEN "check_json" ELSE "recreate_db"
    /\ ld_error = "none"
    /\ db_file \in {"absent", "old"}
    /\ db_tables = {}
    /\ db_rows = <<>>
    /\ tx_open = FALSE
    /\ tx_tables = {}
    /\ tx_rows = <<>>
    /\ next_row = 1
    /\ CovIdle
    /\ MetIdle
    /\ FetchIdle

LdNext ==
    \/ CheckJson
    \/ ReadRows
    \/ Validate
    \/ RecreateDb
    \/ CreateTable
    \/ InsertRow
    \/ RebuildPlayers
    \/ LoadMissingSeasons
    \/ LoadDraftHistory
    \/ Commit
    \/ Finish

SpecLoad == LdInit /\ [][LdNext]_vars

(***************************************************************************)
(* Stats fetch: fetch_nba_player_stats                                     *)
(***************************************************************************)
\* range(2000, 2025)
FirstSeasonYear == 2000
EndSeasonYear == 2025

\* seasons = [f"{year}-{str(year+1)[-2:]}" for year in range(2000, 2025)]
seasons ==
    [k \in 1..(EndSeasonYear - FirstSeasonYear) |->
        SeasonLabel(FirstSeasonYear + k - 1)]

\* the rowSet of a successful response, as records: dict(zip(headers, row))
ResponseRows == <<[PLAYER_NAME |-> "Ann"], [PLAYER_NAME |-> "Bob"]>>

\* record["SEASON"] = season, for every row of the response
Tagged(rowSet, season) ==
    [k \in 1..Len(rowSet) |->
        [PLAYER_NAME |-> rowSet[k].PLAYER_NAME, SEASON |-> season]]

\* the requests so far that did not succeed
Faults == Cardinality({k \in 1..Len(responses) : responses[k] # "ok"})

\* `except TimeoutError` asking for the same season again
RetrySameSeason(idx) == idx

\* `except TimeoutError: ... continue`: on to the next season
AfterTimeout(idx) == idx + 1

\* one pass of `for season in seasons`: the request, and on success the rows
\* of the response appended with their SEASON; TimeoutError skips the season,
\* any other exception leaves the function
FetchSeason ==
    /\ fetch_pc = "loop"
    /\ season_idx <= Len(seasons)
    /\ \E outcome \in {"ok", "TimeoutError", "error"} :
         /\ outcome # "ok" => Faults < MaxFaults
         /\ requests' = Append(requests, seasons[season_idx])
         /\ responses' = Append(responses, outcome)
         /\ CASE outcome = "ok" ->
                   /\ all_rows' = all_rows \o Tagged(ResponseRows, seasons[season_idx])
                   /\ season_idx' = season_idx + 1
                   /\ fetch_pc' = IF season_idx = Len(seasons) THEN "write" ELSE "loop"
              [] outcome = "TimeoutError" ->
                   /\ all_rows' = all_rows
                   /\ season_idx' = AfterTimeout(season_idx)
                   /\ fetch_pc' = IF AfterTimeout(season_idx) > Len(seasons)
                                  THEN "write" ELSE "loop"
              [] OTHER ->
                   /\ all_rows' = all_rows
                   /\ season_idx' = season_idx
                   /\ fetch_pc' = "halted"
    /\ UNCHANGED <<stats_out, covVars, metVars, ldVars>>

\* df = pd.DataFrame(all_rows); standardize_player_names(df); to_csv; to_json:
\* a frame without rows has no PLAYER_NAME column, a KeyError
WriteStats ==
    /\ fetch_pc = "write"
    /\ IF all_rows = <<>>
       THEN fetch_pc' = "halted" /\ stats_out' = stats_out
       ELSE fetch_pc' = "done" /\ stats_out' = all_rows
    /\ UNCHANGED <<season_idx, requests, responses, all_rows, covVars, metVars, ldVars>>

FetchInit ==
    /\ season_idx = 1
    /\ requests = <<>>
    /\ responses = <<>>
    /\ all_rows = <<>>
    /\ fetch_pc = "loop"
    /\ stats_out = "none"
    /\ CovIdle
    /\ MetIdle
    /\ LdIdle

FetchNext ==
    \/ FetchSeason
    \/ WriteStats

SpecFetch == FetchInit /\ [][FetchNext]_vars

(***************************************************************************)
(* Claims about the season-coverage analyzer                               *)
(***************************************************************************)
L2000 == <<"2", "0", "0", "0", "-", "0", "1">>
L2001 == <<"2", "0", "0", "1", "-", "0", "2">>
L2002 == <<"2", "0", "0", "2", "-", "0", "3">>
L2003 == <<"2", "0", "0", "3", "-", "0", "4">>

CovWritten == cov_pc = "done" /\ cov_outcome = "written"

\* the start years observed for p, read off the labels by the fetcher's format
ObservedYears(p) == {y \in Years : SeasonLabel(y) \in df[p]}

GapYears(p) ==
    LET obs == ObservedYears(p)
    IN  {y \in Years : /\ y \notin obs
                       /\ \E lo \in obs : lo < y
                       /\ \E hi \in obs : y < hi}

\* C1: for well-formed labels the missing list is exactly the labels of the
\* unobserved start years between the first and the last observed one, in
\* ascending chronological order; {"2000-01", "2003-04"} gives
\* ["2001-02", "2002-03"].
C1_MissingIsExactGap ==
    (/\ cov_pc = "done"
     /\ Grouped(df) # {}
     /\ \A p \in Players : df[p] \subseteq WellFormedLabels)
    => /\ cov_outcome = "written"
       /\ DOMAIN missing_csv = Grouped(df)
       /\ \A p \in Grouped(df) :
            LET m == missing_csv[p].MISSING_SEASONS
                gaps == GapYears(p)
            IN  /\ Len(m) = Cardinality(gaps)
                /\ \A i \in 1..Len(m) :
                     \E y \in gaps :
                        /\ m[i] = SeasonLabel(y)
                        /\ Cardinality({z \in gaps : z < y}) = i - 1
                /\ (df[p] = {L2000, L2003} => m = <<L2001, L2002>>)

C1_Witness ==
    /\ CovWritten
    /\ \E p \in Grouped(df) :
         /\ df[p] = {L2000, L2003}
         /\ missing_csv[p].MISSING_SEASONS = <<L2001, L2002>>

\* the start year a label is read as
StartYear(s) == ParseInt(SplitFirst(s)).v

\* C2: in every coverage entry written, each missing season lies between the
\* player's first and last observed season, none is an observed season, and a
\* player observed in exactly one season has an empty missing list.
C2_MissingWithinSpan ==
    CovWritten =>
        \A p \in DOMAIN missing_csv :
            LET m == missing_csv[p].MISSING_SEASONS
                obs == {StartYear(s) : s \in df[p]}
            IN  /\ \A i \in 1..Len(m) :
                     /\ m[i] \notin df[p]
                     /\ StartYear(m[i]) \notin obs
                     /\ \E lo \in obs : lo <= StartYear(m[i])
                     /\ \E hi \in obs : StartYear(m[i]) <= hi
                /\ (Cardinality(df[p]) = 1 => m = <<>>)

C2_Witness ==
    /\ CovWritten
    /\ \E p \in DOMAIN missing_csv : Len(missing_csv[p].MISSING_SEASONS) >= 1
    /\ \E p \in DOMAIN missing_csv :
         /\ Cardinality(df[p]) = 1
         /\ missing_csv[p].MISSING_SEASONS = <<>>

\* a label that starts with a 4-digit year: four digits before the first "-"
StartsWithYear(s) ==
    /\ Len(SplitFirst(s)) = 4
    /\ \A j \in 1..4 : s[j] \in DigitSet

\* C8: a season label that does not start with a 4-digit parseable year makes
\* detect_anomalies raise and reject the whole batch: no coverage report is
\* written for any player, and the label is neither skipped nor read as some
\* other year.
C8_MalformedRejected ==
    (cov_pc = "done" /\ \E p \in Players : \E s \in df[p] : ~StartsWithYear(s))
    => /\ cov_outcome = "ValueError"
       /\ missing_csv = "none"

\* C9: an empty batch is rejected with an error: the coverage analyzer writes
\* no (empty) coverage report for it.
C9_EmptyBatchRejected ==
    (cov_pc = "done" /\ Grouped(df) = {})
    => /\ cov_outcome \in {"KeyError", "ValueError"}
       /\ missing_csv = "none"

\* label m has the form "YYYY-YY", its first four characters are the start
\* year y - 1 of the shifted year y it is read back as, its suffix is that
\* start year + 1 modulo 100, and it is "{y-1}-{str(y)[-2:]}"
RendersItsYear(m) ==
    /\ Len(m) = 7
    /\ m[5] = "-"
    /\ \A j \in {1, 2, 3, 4, 6, 7} : m[j] \in DigitSet
    /\ LET start_year == DigitsValue(SubSeq(m, 1, 4))
           y == start_year + 1
       IN  /\ DigitsValue(SubSeq(m, 6, 7)) = (start_year + 1) % 100
           /\ ShiftedYear(m) = [ok |-> TRUE, v |-> y]
           /\ m = Str(y - 1) \o <<"-">> \o LastTwo(Str(y))

\* C12: every label of a missing list has the "YYYY-YY" form of the input
\* labels: it is "{y-1}-{last two digits of y}" for its shifted year y, its
\* first four characters are the missing start year, its suffix is that year
\* + 1 modulo 100, and parsing and shifting it gives y back.
C12_MissingLabelFormat ==
    CovWritten =>
        \A p \in DOMAIN missing_csv :
            \A j \in 1..Len(missing_csv[p].MISSING_SEASONS) :
                RendersItsYear(missing_csv[p].MISSING_SEASONS[j])

\* what is left of C12 when every input label is one the fetcher produces
MissingLabelFormatOfFetched ==
    (CovWritten /\ \A p \in Players : df[p] \subseteq WellFormedLabels)
    => \A p \in DOMAIN missing_csv :
          \A j \in 1..Len(missing_csv[p].MISSING_SEASONS) :
              RendersItsYear(missing_csv[p].MISSING_SEASONS[j])

(***************************************************************************)
(* Claims about the metrics engine                                         *)
(***************************************************************************)
MetReturned == met_pc = "done" /\ met_outcome = "returned"

\* a raw value that float() turns into a finite number
RawNumber(x) == x.t \in {"int", "numstr"}

\* a raw value that float() accepts
RawPresent(x) == RawNumber(x) \/ x.t \in {"nan", "inf", "ninf"}

\* a raw value that is present and strictly greater than zero
RawPositive(x) == (RawNumber(x) /\ x.v > 0) \/ x.t = "inf"

\* C3: eFG% is (FGM + 0.5*FG3M)/FGA exactly when FGA is present and > 0 and
\* FGM and FG3M are present; otherwise it is None, never zero (FGA == 0
\* included, whatever the other fields hold).
C3_EfgExactlyWhenDefined ==
    MetReturned =>
        LET defined == /\ RawPositive(r["FGA"])
                       /\ RawPresent(r["FGM"])
                       /\ RawPresent(r["FG3M"])
            efg == metrics.efg
        IN  /\ (efg # None) <=> defined
            /\ (defined /\ \A f \in {"FGA", "FGM", "FG3M"} : RawNumber(r[f]))
               => /\ efg.k = "fin"
                  /\ efg.n * 2 * r["FGA"].v
                     = (2 * r["FGM"].v + r["FG3M"].v) * efg.d
            /\ (RawNumber(r["FGA"]) /\ r["FGA"].v = 0 => efg = None)
            /\ (r = ExampleRecord => efg = [k |-> "fin", n |-> 3, d |-> 5])

C3_Witness ==
    /\ MetReturned
    /\ r["FGA"] = Raw("int", MaxStat)
    /\ r["FGM"] = Raw("int", MaxStat)
    /\ r["FG3M"] = Raw("int", MaxStat)
    /\ metrics.efg = [k |-> "fin", n |-> 3, d |-> 2]

\* FGA + 0.44*FTA > 0, on the raw values
RawDenomPositive(fga, fta) ==
    CASE RawNumber(fga) /\ RawNumber(fta) -> 25 * fga.v + 11 * fta.v > 0
      [] fga.t \in {"nan", "ninf"} \/ fta.t \in {"nan", "ninf"} -> FALSE
      [] OTHER -> TRUE

\* C4: TS% is PTS / (2*(FGA + 0.44*FTA)) exactly when PTS, FGA and FTA are
\* present and the denominator is > 0; otherwise it is None.
C4_TsExactlyWhenDefined ==
    MetReturned =>
        LET present == \A f \in {"PTS", "FGA", "FTA"} : RawPresent(r[f])
            defined == present /\ RawDenomPositive(r["FGA"], r["FTA"])
            ts == metrics.ts
        IN  /\ (ts # None) <=> defined
            /\ (defined /\ \A f \in {"PTS", "FGA", "FTA"} : RawNumber(r[f]))
               => /\ ts.k = "fin"
                  /\ ts.n * 2 * (25 * r["FGA"].v + 11 * r["FTA"].v)
                     = 25 * r["PTS"].v * ts.d
            /\ (r = ExampleRecord => ts = [k |-> "fin", n |-> 250, d |-> 419])

C4_Witness ==
    /\ MetReturned
    /\ r["PTS"] = Raw("int", MaxStat)
    /\ r["FGA"] = Raw("int", 0)
    /\ r["FTA"] = Raw("int", MaxStat)
    /\ metrics.ts.k = "fin"
    /\ metrics.ts.n > 0

\* the per-36 field of each base stat
Per36Field(f) ==
    CASE f = "PTS" -> metrics.pts_per36
      [] f = "REB" -> metrics.reb_per36
      [] OTHER -> metrics.ast_per36

\* C5: each per-36 value is stat*36/MIN exactly when MIN is present and > 0
\* and the stat is present; without a positive MIN all three are None, and
\* with one an absent stat makes only its own per-36 value None.
C5_Per36ExactlyWhenDefined ==
    MetReturned =>
        /\ \A f \in {"PTS", "REB", "AST"} :
            LET defined == RawPositive(r["MIN"]) /\ RawPresent(r[f])
                m == Per36Field(f)
            IN  /\ (m # None) <=> defined
                /\ (defined /\ RawNumber(r["MIN"]) /\ RawNumber(r[f]))
                   => /\ m.k = "fin"
                      /\ m.n * r["MIN"].v = 36 * r[f].v * m.d
        /\ (r = ExampleRecord
            => /\ metrics.pts_per36 = [k |-> "fin", n |-> 24, d |-> 1]
               /\ metrics.reb_per36 = [k |-> "fin", n |-> 6, d |-> 1]
               /\ metrics.ast_per36 = None)

C5_Witness ==
    /\ MetReturned
    /\ r["MIN"] = Raw("int", MaxStat)
    /\ r["PTS"] = Raw("int", MaxStat)
    /\ r["REB"] = Raw("missing", 0)
    /\ metrics.pts_per36 = [k |-> "fin", n |-> 36, d |-> 1]
    /\ metrics.reb_per36 = None
    /\ metrics.ast_per36 # None

\* C6: each of the five metrics returned is a finite number or None, never
\* NaN or infinite, whatever values safe_float accepted.
C6_MetricsFiniteOrAbsent ==
    MetReturned =>
        \A m \in {metrics.ts, metrics.efg, metrics.pts_per36,
                  metrics.reb_per36, metrics.ast_per36} :
            m.k \in {"none", "fin"}

\* C7: compute_metrics never raises: every call returns a 5-tuple.
C7_NeverRaises == met_pc = "done" => met_outcome = "returned"

\* the inputs only the per-36 metrics read, and those only eFG% and TS% read
RateInputs == {"MIN", "REB", "AST"}
ShootingInputs == {"FGM", "FGA", "FG3M", "FTA"}

\* the records that differ from rec in the one field f
VariantsIn(rec, f) == {[rec EXCEPT ![f] = x] : x \in BaseValues \cup OtherValues}

\* C11: eFG% and TS% do not depend on MIN, REB or AST, nor the per-36 metrics
\* on FGM, FGA, FG3M or FTA: a record that differs only in such a field gets
\* the same values; with MIN absent the three per-36 fields are absent while
\* eFG% and TS% are still computed from their own inputs.
C11_ShootingIndependentOfRates ==
    MetReturned =>
        /\ \A f \in RateInputs : \A r2 \in VariantsIn(r, f) :
             LET res == ComputeMetrics(r2)
             IN  /\ ~res.raised
                 /\ res.efg = metrics.efg
                 /\ res.ts = metrics.ts
        /\ \A f \in ShootingInputs : \A r2 \in VariantsIn(r, f) :
             LET res == ComputeMetrics(r2)
             IN  /\ ~res.raised
                 /\ res.pts_36 = metrics.pts_per36
                 /\ res.reb_36 = metrics.reb_per36
                 /\ res.ast_36 = metrics.ast_per36
        /\ (~RawPresent(r["MIN"])
            => /\ metrics.pts_per36 = None
               /\ metrics.reb_per36 = None
               /\ metrics.ast_per36 = None)

\* what is left of C11 between two calls that both return
IndependentWhenBothReturn ==
    MetReturned =>
        /\ \A f \in RateInputs : \A r2 \in VariantsIn(r, f) :
             LET res == ComputeMetrics(r2)
             IN  ~res.raised => res.efg = metrics.efg /\ res.ts = metrics.ts
        /\ \A f \in ShootingInputs : \A r2 \in VariantsIn(r, f) :
             LET res == ComputeMetrics(r2)
             IN  ~res.raised => /\ res.pts_36 = metrics.pts_per36
                                /\ res.reb_36 = metrics.reb_per36
                                /\ res.ast_36 = metrics.ast_per36

(***************************************************************************)
(* Claims about the database build                                         *)
(***************************************************************************)
\* the stats loaders' half of C9: an empty record list raises ValueError
\* before any table is created
LoadersRejectEmpty ==
    (json_exists /\ rows = <<>>)
    => /\ db_tables = {} /\ tx_tables = {} /\ tx_rows = <<>> /\ db_rows = <<>>
       /\ ld_pc \in {"recreate_db", "check_json", "read_rows", "halted"}
       /\ (ld_pc = "halted" => ld_error = "ValueError")

\* the batch has records and some required key is in none of them
BatchLacksKey ==
    /\ json_exists
    /\ rows # <<>>
    /\ \E key \in required_keys : \A j \in 1..Len(rows) : key \notin rows[j].keys

\* every record has the keys read as r[key], and the first one every key
OnlyCoercionFailures ==
    /\ json_exists
    /\ rows # <<>>
    /\ rows[1].keys = required_keys
    /\ \A j \in 1..Len(rows) : IndexedKeys \subseteq rows[j].keys

\* C10: a batch that lacks an expected key fails as a whole with KeyError,
\* raised before the stats table is created and before any row is inserted,
\* so none of its records is stored; a field that is merely missing or null
\* in a record is absorbed and raises no KeyError.
C10_MissingKeyFailsBatch ==
    /\ BatchLacksKey
       => /\ db_tables = {} /\ tx_tables = {}
          /\ tx_rows = <<>> /\ db_rows = <<>>
          /\ ld_pc \in {"recreate_db", "check_json", "read_rows", "validate",
                        "halted"}
          /\ (script = "build_db" => db_file # "new")
          /\ (ld_pc = "halted" => ld_error = "KeyError")
    /\ (OnlyCoercionFailures /\ ld_error = "KeyError")
       => /\ csv_state = "bad_header"
          /\ Len(tx_rows) = Len(rows)

C10_Witness ==
    /\ BatchLacksKey
    /\ Len(rows) = 2
    /\ ld_pc = "halted"
    /\ ld_error = "KeyError"
    /\ db_tables = {}
    /\ tx_rows = <<>>

\* the failures raised before con.commit(): a missing or empty stats JSON, a
\* missing key, and the errors of an insert or of a later loader
FailuresBeforeCommit ==
    {"FileNotFoundError", "ValueError", "KeyError", "OverflowError",
     "IntegrityError"}

\* C13: a build in which one of those failures is raised halts without
\* reaching commit, so none of its rows is committed; rows are committed only
\* after every insert of the run has succeeded.
C13_NoCommitAfterFailure ==
    /\ ld_error \in FailuresBeforeCommit
       => /\ ld_pc = "halted"
          /\ db_rows = <<>>
          /\ db_tables \subseteq {"player_season_stats"}
    /\ db_rows # <<>>
       => /\ Len(db_rows) = Len(rows)
          /\ tx_rows = <<>>
          /\ ld_pc \in {"finish", "done", "halted"}
          /\ ld_error \notin FailuresBeforeCommit

C13_Witness ==
    /\ ld_pc = "halted"
    /\ ld_error \in {"KeyError", "IntegrityError", "OverflowError"}
    /\ Len(tx_rows) >= 1
    /\ tx_open
    /\ db_rows = <<>>

(***************************************************************************)
(* Claims about the stats fetch                                            *)
(***************************************************************************)
L2024 == <<"2", "0", "2", "4", "-", "2", "5">>

\* the records of all_rows tagged with label s, in order
RECURSIVE RowsOf(_, _)
RowsOf(q, s) ==
    IF q = <<>> THEN <<>>
    ELSE IF Head(q).SEASON = s THEN <<Head(q)>> \o RowsOf(Tail(q), s)
    ELSE RowsOf(Tail(q), s)

====
